---- MODULE Spec2Model ----
(***************************************************************************)
(* Model of the retry wrapper and the three task invokers of               *)
(* gemini_wrapper.py (generate_text, generate_code, classify_text).        *)
(*                                                                         *)
(* A Python str is a sequence of one-character strings, so that lower(),   *)
(* strip(), the `in` substring test and f-string concatenation are         *)
(* computed on the characters.  A Python value is a record tagged with its *)
(* type.  The tenacity decorator (@retry(retry=, stop=, wait=, reraise=))  *)
(* is the loop Invoke -> BeginAttempt -> UpstreamReturn | UpstreamRaise    *)
(* -> Iter -> (SleepElapsed -> BeginAttempt | return | raise).             *)
(***************************************************************************)
EXTENDS Integers, Sequences, FiniteSets, TLC

\* ------------------------------------------------------------------ bounds
\* Number of invocation slots of the model (concurrent callers).
MaxInvocations == 2

\* Largest attempt number for which the delay function is tabulated.
MaxWaitProbe == 8

\* Requests per window a route other than the busiest one receives.
MaxBackgroundRequests == 1

Invs == 1..MaxInvocations

\* The invocation driven by the single-caller specification Spec.
MainInv == CHOOSE i \in Invs : \A j \in Invs : i <= j

\* ------------------------------------------------- tenacity configuration
\* stop=stop_after_attempt(5)
MaxAttemptNumber == 5
\* wait=wait_exponential(multiplier=1, min=1, max=60), exp_base default 2
WaitMultiplier == 1
WaitMin == 1
WaitMax == 60
ExpBase == 2

\* ------------------------------------------------------- integer helpers
Max2(a, b) == IF a >= b THEN a ELSE b

Min2(a, b) == IF a <= b THEN a ELSE b

RECURSIVE Pow(_, _)
Pow(b, e) == IF e <= 0 THEN 1 ELSE b * Pow(b, e - 1)

SetMin(S) == CHOOSE x \in S : \A y \in S : x <= y

\* ------------------------------------------------------- Python strings
UpperChars ==
  <<"A","B","C","D","E","F","G","H","I","J","K","L","M",
    "N","O","P","Q","R","S","T","U","V","W","X","Y","Z">>

LowerChars ==
  <<"a","b","c","d","e","f","g","h","i","j","k","l","m",
    "n","o","p","q","r","s","t","u","v","w","x","y","z">>

WhitespaceChars == {" ", "\t", "\n", "\r"}

LowerChar(c) ==
  IF \E k \in 1..Len(UpperChars) : UpperChars[k] = c
  THEN LowerChars[CHOOSE k \in 1..Len(UpperChars) : UpperChars[k] = c]
  ELSE c

\* str.lower(); v names the value of s.
Lower(s) ==
  CHOOSE low \in {[k \in 1..Len(v) |-> LowerChar(v[k])] : v \in {s}} : TRUE

\* str.strip()
Strip(s) ==
  LET keep == {k \in 1..Len(s) : s[k] \notin WhitespaceChars}
  IN  IF keep = {} THEN <<>>
      ELSE LET lo == SetMin(keep)
               hi == CHOOSE x \in keep : \A y \in keep : x >= y
           IN  SubSeq(s, lo, hi)

\* needle in hay  (Python substring test; the empty needle is in every str).
\* h and n name the values of the two arguments.
Contains(hay, needle) ==
  \E h \in {hay} : \E n \in {needle} :
    \E k \in 0..(Len(h) - Len(n)) :
      \A j \in 1..Len(n) : h[k + j] = n[j]

\* -------------------------------------------------------- Python values
PyStr(s) == [ty |-> "str", s |-> s, n |-> 0, items |-> <<>>]

PyNone == [ty |-> "NoneType", s |-> <<>>, n |-> 0, items |-> <<>>]

PyInt(n) == [ty |-> "int", s |-> <<>>, n |-> n, items |-> <<>>]

PyList(xs) == [ty |-> "list", s |-> <<>>, n |-> 0, items |-> xs]

\* bool(v)
Truthy(v) ==
  CASE v.ty = "str"  -> Len(v.s) > 0
    [] v.ty = "int"  -> v.n # 0
    [] v.ty = "list" -> Len(v.items) > 0
    [] OTHER         -> FALSE

\* isinstance(v, cls)
IsInstance(v, cls) == v.ty = cls

\* ------------------------------------------------------ error classifiers
rate_limit_indicators ==
  << <<"r","a","t","e"," ","l","i","m","i","t"," ","e","x","c","e","e","d","e","d">>,
     <<"q","u","o","t","a"," ","e","x","c","e","e","d","e","d">>,
     <<"r","e","s","o","u","r","c","e"," ","e","x","h","a","u","s","t","e","d">>,
     <<"t","o","o"," ","m","a","n","y"," ","r","e","q","u","e","s","t","s">>,
     <<"4","2","9">>,
     <<"r","a","t","e","_","l","i","m","i","t","_","e","x","c","e","e","d","e","d">> >>

retryable_indicators ==
  << <<"r","a","t","e"," ","l","i","m","i","t"," ","e","x","c","e","e","d","e","d">>,
     <<"q","u","o","t","a"," ","e","x","c","e","e","d","e","d">>,
     <<"r","e","s","o","u","r","c","e"," ","e","x","h","a","u","s","t","e","d">>,
     <<"t","o","o"," ","m","a","n","y"," ","r","e","q","u","e","s","t","s">>,
     <<"t","e","m","p","o","r","a","r","y"," ","f","a","i","l","u","r","e">>,
     <<"s","e","r","v","i","c","e"," ","u","n","a","v","a","i","l","a","b","l","e">>,
     <<"t","i","m","e","o","u","t">>,
     <<"c","o","n","n","e","c","t","i","o","n"," ","e","r","r","o","r">>,
     <<"4","2","9">>,
     <<"5","0","0">>,
     <<"5","0","2">>,
     <<"5","0","3">>,
     <<"5","0","4">> >>

\* any(indicator in error_message for indicator in indicators)
AnyIndicatorIn(indicators, error_message) ==
  \E m \in {error_message} :
    \E k \in 1..Len(indicators) : Contains(m, indicators[k])

\* is_rate_limit_error(exception); msg is str(exception)
is_rate_limit_error(msg) ==
  \E error_message \in {Lower(msg)} :
    AnyIndicatorIn(rate_limit_indicators, error_message)

\* Variant: the message is not lower-cased before the search.
is_retryable_error_case_sensitive(msg) ==
  AnyIndicatorIn(retryable_indicators, msg)

\* is_retryable_error(exception); msg is str(exception)
is_retryable_error(msg) ==
  \E error_message \in {Lower(msg)} :
    AnyIndicatorIn(retryable_indicators, error_message)

\* --------------------------------------------------------------- messages
PromptErrorMsg ==
  <<"P","r","o","m","p","t"," ","m","u","s","t"," ","b","e"," ","a"," ","n","o","n","-","e","m","p","t","y"," ","s","t","r","i","n","g">>

TextErrorMsg ==
  <<"T","e","x","t"," ","m","u","s","t"," ","b","e"," ","a"," ","n","o","n","-","e","m","p","t","y"," ","s","t","r","i","n","g">>

CategoriesErrorMsg ==
  <<"C","a","t","e","g","o","r","i","e","s"," ","m","u","s","t"," ","b","e"," ","a"," ","n","o","n","-","e","m","p","t","y"," ","l","i","s","t">>

RateLimitPrefix ==
  <<"R","a","t","e"," ","l","i","m","i","t"," ","e","x","c","e","e","d","e","d",":"," ">>

TextGenPrefix ==
  <<"G","e","m","i","n","i"," ","A","P","I"," ","e","r","r","o","r"," ","i","n"," ","t","e","x","t"," ","g","e","n","e","r","a","t","i","o","n",":"," ">>

CodeGenPrefix ==
  <<"G","e","m","i","n","i"," ","A","P","I"," ","e","r","r","o","r"," ","i","n"," ","c","o","d","e"," ","g","e","n","e","r","a","t","i","o","n",":"," ">>

ClassifyPrefix ==
  <<"G","e","m","i","n","i"," ","A","P","I"," ","e","r","r","o","r"," ","i","n"," ","t","e","x","t"," ","c","l","a","s","s","i","f","i","c","a","t","i","o","n",":"," ">>

\* ----------------------------------------------------------------- inputs
\* str(e) of the exceptions the upstream client raises.
MsgQuota ==
  <<"Q","u","o","t","a"," ","e","x","c","e","e","d","e","d">>

MsgRateLimitCode ==
  <<"R","A","T","E","_","L","I","M","I","T","_","E","X","C","E","E","D","E","D">>

MsgRateLimitReached ==
  <<"R","a","t","e"," ","l","i","m","i","t"," ","r","e","a","c","h","e","d">>

MsgResourceCode ==
  <<"R","E","S","O","U","R","C","E","_","E","X","H","A","U","S","T","E","D">>

MsgUnavailable ==
  <<"5","0","3"," ","S","e","r","v","i","c","e"," ","U","n","a","v","a","i","l","a","b","l","e">>

MsgInvalidKey ==
  <<"I","n","v","a","l","i","d"," ","A","P","I"," ","k","e","y">>

MsgTooMany ==
  <<"T","o","o"," ","M","a","n","y"," ","R","e","q","u","e","s","t","s">>

Msg429 ==
  <<"H","T","T","P"," ","4","2","9">>

MsgResourceExhausted ==
  <<"R","e","s","o","u","r","c","e"," ","e","x","h","a","u","s","t","e","d">>

MsgRateLimitExceeded ==
  <<"R","a","t","e"," ","L","i","m","i","t"," ","E","x","c","e","e","d","e","d">>

MsgTemporary ==
  <<"T","e","m","p","o","r","a","r","y"," ","f","a","i","l","u","r","e">>

MsgNotFound ==
  <<"M","o","d","e","l"," ","n","o","t"," ","f","o","u","n","d">>

ErrMsgs ==
  { MsgQuota, MsgRateLimitCode, MsgRateLimitReached, MsgResourceCode,
    MsgUnavailable, MsgInvalidKey, MsgTooMany, Msg429,
    MsgResourceExhausted, MsgRateLimitExceeded, MsgTemporary, MsgNotFound }

\* An upstream exception: its str(e) and its structured status code
\* (NoCode when the exception carries none).
NoCode == 0

UpstreamError(m, c) == [msg |-> m, code |-> c]

UpstreamErrors ==
  { UpstreamError(m, NoCode) : m \in ErrMsgs } \cup
  { UpstreamError(MsgInvalidKey, 429), UpstreamError(MsgTooMany, 429),
    UpstreamError(MsgRateLimitCode, 429), UpstreamError(MsgInvalidKey, 503) }

\* str(e)
StrOf(e) == e.msg

\* Upstream responses: an object with a .content, or one without (str(response)).
Responses ==
  { [has_content |-> TRUE,  content |-> <<" ","A","B","\n">>, str |-> <<>>],
    [has_content |-> TRUE,  content |-> <<"n","o">>,          str |-> <<>>],
    [has_content |-> TRUE,  content |-> <<" ">>,              str |-> <<>>],
    [has_content |-> FALSE, content |-> <<>>,                 str |-> <<"a","b">>] }

\* Caller-supplied prompts / texts.
Prompts ==
  { PyStr(<<"h","i">>), PyStr(<<>>), PyNone, PyInt(42) }

\* Caller-supplied category arguments.
CategoryArgs ==
  { PyList(<< <<"A","b">>, <<"a","b">>, <<"b">> >>),
    PyList(<< <<"b">>, <<"A","B">> >>),
    PyList(<<>>), PyNone, PyStr(<<"a","b">>) }

Tasks == {"generate_text", "generate_code", "classify_text"}

\* ------------------------------------------------------ upstream request
\* The text of the enhanced_prompt f-string around {prompt}.
CodePromptHead ==
  << "\n"," "," "," "," "," "," "," "," ","G","e","n","e","r","a","t",
     "e"," ","c","l","e","a","n",","," ","w","e","l","l","-","c","o",
     "m","m","e","n","t","e","d",","," ","a","n","d"," ","f","u","n",
     "c","t","i","o","n","a","l"," ","c","o","d","e"," ","f","o","r",
     " ","t","h","e"," ","f","o","l","l","o","w","i","n","g"," ","r",
     "e","q","u","e","s","t",":","\n"," "," "," "," "," "," "," "," ",
     "\n"," "," "," "," "," "," "," "," " >>

CodePromptTail ==
  << "\n"," "," "," "," "," "," "," "," ","\n"," "," "," "," "," "," ",
     " "," ","P","l","e","a","s","e"," ","p","r","o","v","i","d","e",
     ":","\n"," "," "," "," "," "," "," "," ","1","."," ","W","o","r",
     "k","i","n","g"," ","c","o","d","e"," ","w","i","t","h"," ","p",
     "r","o","p","e","r"," ","s","y","n","t","a","x","\n"," "," "," ",
     " "," "," "," "," ","2","."," ","C","l","e","a","r"," ","v","a",
     "r","i","a","b","l","e"," ","n","a","m","e","s"," ","a","n","d",
     " ","s","t","r","u","c","t","u","r","e","\n"," "," "," "," "," ",
     " "," "," ","3","."," ","B","r","i","e","f"," ","c","o","m","m",
     "e","n","t","s"," ","w","h","e","r","e"," ","h","e","l","p","f",
     "u","l","\n"," "," "," "," "," "," "," "," ","4","."," ","E","x",
     "a","m","p","l","e"," ","u","s","a","g","e"," ","i","f"," ","a",
     "p","p","l","i","c","a","b","l","e","\n"," "," "," "," "," "," ",
     " "," ","\n"," "," "," "," "," "," "," "," ","C","o","d","e",":",
     "\n"," "," "," "," "," "," "," "," " >>

\* The text of the classification_prompt f-string around {categories_str},
\* {text} and {categories_str}.
ClassifyPromptHead ==
  << "\n"," "," "," "," "," "," "," "," ","P","l","e","a","s","e"," ",
     "c","l","a","s","s","i","f","y"," ","t","h","e"," ","f","o","l",
     "l","o","w","i","n","g"," ","t","e","x","t"," ","i","n","t","o",
     " ","e","x","a","c","t","l","y"," ","o","n","e"," ","o","f"," ",
     "t","h","e","s","e"," ","c","a","t","e","g","o","r","i","e","s",
     ":"," " >>

ClassifyPromptText ==
  << "\n"," "," "," "," "," "," "," "," ","\n"," "," "," "," "," "," ",
     " "," ","T","e","x","t"," ","t","o"," ","c","l","a","s","s","i",
     "f","y",":"," ","\"" >>

ClassifyPromptInstructions ==
  << "\"","\n"," "," "," "," "," "," "," "," ","\n"," "," "," "," "," ",
     " "," "," ","I","n","s","t","r","u","c","t","i","o","n","s",":",
     "\n"," "," "," "," "," "," "," "," ","1","."," ","C","h","o","o",
     "s","e"," ","O","N","L","Y"," ","O","N","E"," ","c","a","t","e",
     "g","o","r","y"," ","f","r","o","m"," ","t","h","e"," ","p","r",
     "o","v","i","d","e","d"," ","l","i","s","t","\n"," "," "," "," ",
     " "," "," "," ","2","."," ","R","e","s","p","o","n","d"," ","w",
     "i","t","h"," ","O","N","L","Y"," ","t","h","e"," ","c","a","t",
     "e","g","o","r","y"," ","n","a","m","e",","," ","n","o","t","h",
     "i","n","g"," ","e","l","s","e","\n"," "," "," "," "," "," "," ",
     " ","3","."," ","D","o"," ","n","o","t"," ","a","d","d"," ","e",
     "x","p","l","a","n","a","t","i","o","n","s"," ","o","r"," ","a",
     "d","d","i","t","i","o","n","a","l"," ","t","e","x","t","\n"," ",
     " "," "," "," "," "," "," ","4","."," ","T","h","e"," ","r","e",
     "s","p","o","n","s","e"," ","m","u","s","t"," ","b","e"," ","o",
     "n","e"," ","o","f",":"," " >>

ClassifyPromptTail ==
  << "\n"," "," "," "," "," "," "," "," ","\n"," "," "," "," "," "," ",
     " "," ","C","l","a","s","s","i","f","i","c","a","t","i","o","n",
     ":","\n"," "," "," "," "," "," "," "," " >>

JoinSeparator == <<","," ">>

RECURSIVE Join(_)
\* ", ".join(categories)
Join(cats) ==
  IF Len(cats) = 0 THEN <<>>
  ELSE IF Len(cats) = 1 THEN cats[1]
  ELSE cats[1] \o JoinSeparator \o Join(Tail(cats))

\* Variant: generate_code sends the caller's prompt without the framing.
OutboundPrompt_unframed(t, p, c) ==
  CASE t = "generate_text" -> p.s
    [] t = "generate_code" -> p.s
    [] OTHER ->
         ClassifyPromptHead \o Join(c.items) \o ClassifyPromptText \o p.s
           \o ClassifyPromptInstructions \o Join(c.items) \o ClassifyPromptTail

\* The content of the HumanMessage handed to llm.invoke.
OutboundPrompt(t, p, c) ==
  CASE t = "generate_text" -> p.s
    [] t = "generate_code" -> CodePromptHead \o p.s \o CodePromptTail
    [] OTHER ->
         ClassifyPromptHead \o Join(c.items) \o ClassifyPromptText \o p.s
           \o ClassifyPromptInstructions \o Join(c.items) \o ClassifyPromptTail

\* Variant: every task uses the creative temperature.
temperature_creative(t) == "0.7"

\* temperature= of ChatGoogleGenerativeAI, as written in the source.
temperature(t) ==
  CASE t = "generate_text" -> "0.7"
    [] t = "generate_code" -> "0.2"
    [] OTHER               -> "0.0"

\* Variant: classify_text uses the generation cap.
max_tokens_uniform(t) == IF t = "classify_text" THEN 2048 ELSE 2048

\* max_tokens= of ChatGoogleGenerativeAI.
max_tokens(t) == IF t = "classify_text" THEN 50 ELSE 2048

NoRequest == [temperature |-> "", max_tokens |-> 0, content |-> <<>>]

\* The client configuration and message one attempt builds and sends.
BuildRequest(t, p, c) ==
  [temperature |-> temperature(t), max_tokens |-> max_tokens(t),
   content |-> OutboundPrompt(t, p, c)]

\* ------------------------------------------------------------ HTTP layer
\* Remote addresses of the callers (the limiter's key_func).
MainClient == "10.0.0.1"

OtherClient == "10.0.0.2"

Clients == {MainClient, OtherClient}

TextEndpoint == "/api/v1/generate/text"

CodeEndpoint == "/api/v1/generate/code"

ClassifyEndpoint == "/api/v1/classify/text"

HealthEndpoint == "/api/v1/health"

PostEndpoints == {TextEndpoint, CodeEndpoint, ClassifyEndpoint}

Endpoints == PostEndpoints \cup {HealthEndpoint}

Periods == {"minute", "hour", "day"}

\* "10 per minute" on the three post methods.
RouteLimitAmount == 10

\* default_limits=["200 per day", "50 per hour"]
DefaultDayAmount == 200

DefaultHourAmount == 50

Limit(a, p) == [amount |-> a, per |-> p]

\* Variant: the health route is exempt from the default limits.
RouteLimits_health_exempt(e) ==
  IF e \in PostEndpoints
  THEN {Limit(RouteLimitAmount, "minute")}
  ELSE {}

\* The limits that apply to a route: the decorator's limit on a decorated
\* route, the default limits on every other route.
RouteLimits(e) ==
  IF e \in PostEndpoints
  THEN {Limit(RouteLimitAmount, "minute")}
  ELSE {Limit(DefaultDayAmount, "day"), Limit(DefaultHourAmount, "hour")}

\* One counter per remote address, route and window length.
LimitKeys == Clients \X Endpoints \X Periods

\* Variant: the request that reaches the limit + 1 is still admitted.
LimiterAdmits_inclusive(h, c, e) ==
  \A l \in RouteLimits(e) : h[<<c, e, l.per>>] <= l.amount

\* The limiter lets the request through: within every limit of the route,
\* this request included.
LimiterAdmits(h, c, e) ==
  \A l \in RouteLimits(e) : h[<<c, e, l.per>>] < l.amount

\* Variant: the counters are kept per route only, not per remote address.
LimiterHit_shared_by_clients(h, c, e) ==
  [k \in LimitKeys |->
     IF k[2] = e /\ \E l \in RouteLimits(e) : l.per = k[3]
     THEN Min2(h[k] + 1,
               (CHOOSE l \in RouteLimits(e) : l.per = k[3]).amount + 1)
     ELSE h[k]]

\* The request is counted in every window of its route for its address.
\* A counter stops at limit + 1: from there on every request is rejected.
LimiterHit(h, c, e) ==
  [k \in LimitKeys |->
     IF k[1] = c /\ k[2] = e /\ \E l \in RouteLimits(e) : l.per = k[3]
     THEN Min2(h[k] + 1,
               (CHOOSE l \in RouteLimits(e) : l.per = k[3]).amount + 1)
     ELSE h[k]]

\* The window lengths that have run out once a full period has passed.
ExpiredWith(per) ==
  CASE per = "minute" -> {"minute"}
    [] per = "hour"   -> {"minute", "hour"}
    [] OTHER          -> Periods

\* request.get_json(): the fields a handler reads; a missing field reads
\* as None.
Body(p, t, c) == [prompt |-> p, text |-> t, categories |-> c]

GenerateBodies ==
  { Body(PyStr(<<"h","i">>), PyNone, PyNone),
    Body(PyStr(<<>>), PyNone, PyNone),
    Body(PyNone, PyNone, PyNone),
    Body(PyInt(42), PyNone, PyNone) }

ClassifyBodies ==
  { Body(PyNone, PyStr(<<"h","i">>), PyList(<< <<"b">>, <<"A","B">> >>)),
    Body(PyNone, PyNone, PyList(<< <<"b">>, <<"A","B">> >>)),
    Body(PyNone, PyStr(<<>>), PyList(<< <<"b">>, <<"A","B">> >>)),
    Body(PyNone, PyStr(<<"h","i">>), PyNone),
    Body(PyNone, PyStr(<<"h","i">>), PyList(<<>>)),
    Body(PyNone, PyStr(<<"h","i">>), PyStr(<<"a","b">>)) }

BodiesOf(e) == IF e = ClassifyEndpoint THEN ClassifyBodies ELSE GenerateBodies

PromptRequiredMsg ==
  <<"P","r","o","m","p","t"," ","i","s"," ","r","e","q","u","i","r","e","d">>

TextCategoriesRequiredMsg ==
  <<"T","e","x","t"," ","a","n","d"," ","c","a","t","e","g","o","r","i","e","s",
    " ","a","r","e"," ","r","e","q","u","i","r","e","d">>

HealthyMsg == <<"h","e","a","l","t","h","y">>

\* Variant: only a missing field is rejected, an empty one is passed on.
HandlerRejects_missing_only(e, body) ==
  IF e = ClassifyEndpoint
  THEN body.text.ty = "NoneType" \/ body.categories.ty = "NoneType"
  ELSE body.prompt.ty = "NoneType"

\* Variant: the post methods also reject a field of the wrong type.
HandlerRejects_type_checked(e, body) ==
  IF e = ClassifyEndpoint
  THEN \/ ~Truthy(body.text) \/ ~IsInstance(body.text, "str")
       \/ ~Truthy(body.categories) \/ ~IsInstance(body.categories, "list")
  ELSE ~Truthy(body.prompt) \/ ~IsInstance(body.prompt, "str")

\* if not prompt: / if not text or not categories:
HandlerRejects(e, body) ==
  IF e = ClassifyEndpoint
  THEN ~Truthy(body.text) \/ ~Truthy(body.categories)
  ELSE ~Truthy(body.prompt)

BadRequestMsg(e) ==
  IF e = ClassifyEndpoint THEN TextCategoriesRequiredMsg ELSE PromptRequiredMsg

\* The invoker a post method calls and the field it answers with.
TaskOf(e) ==
  CASE e = TextEndpoint -> "generate_text"
    [] e = CodeEndpoint -> "generate_code"
    [] OTHER            -> "classify_text"

ResultField(e) ==
  CASE e = TextEndpoint -> "generated_text"
    [] e = CodeEndpoint -> "generated_code"
    [] OTHER            -> "classification"

HttpReply(c, e, status, field, value) ==
  [client |-> c, endpoint |-> e, status |-> status, field |-> field,
   value |-> value]

NoReply == HttpReply("", "", 0, "", <<>>)

NoInflight == [client |-> "", endpoint |-> "", body |-> Body(PyNone, PyNone, PyNone)]

\* ------------------------------------------------------------------ state
VARIABLES
  pc,              \* position of each invocation in the tenacity loop
  task,            \* which invoker was called
  prompt,          \* prompt (generate_*) or text (classify_text) argument
  categories,      \* categories argument (classify_text)
  attempt_number,  \* retry_state.attempt_number
  outcome,         \* retry_state.outcome
  next_sleep,      \* retry_state.next_action.sleep
  delivered,       \* what the caller received
  upstream_calls,  \* number of llm.invoke calls made
  sleeps,          \* delays of the completed backoff waits, in order
  failures,        \* number of attempts whose body raised
  retryable_failures, \* number of those the retry predicate accepted
  last_attempt,    \* what the most recent attempt body returned or raised
  last_error_msg,  \* str(e) of the most recent upstream exception
  last_error_code, \* structured status code of that exception
  last_response,   \* text of the most recent upstream response
  slept,           \* time units elapsed of the backoff wait in progress
  request,         \* configuration and message of the latest upstream call
  log,             \* log entries written on behalf of each invocation
  window_hits,     \* limiter storage: requests counted in each open window
  reply,           \* the HTTP response to the most recent request
  inflight,         \* the admitted POST request whose handler is running
  connection_ok    \* what test_api_connection gave its caller

vars == << pc, task, prompt, categories, attempt_number, outcome, next_sleep,
           delivered, upstream_calls, sleeps, failures, retryable_failures,
           last_attempt, last_error_msg, last_error_code, last_response,
           slept, request, log, window_hits, reply, inflight, connection_ok >>

httpvars == << window_hits, reply, inflight >>

invvars == << pc, task, prompt, categories, attempt_number, outcome,
              next_sleep, delivered, upstream_calls, sleeps, failures,
              retryable_failures, last_attempt, last_error_msg,
              last_error_code, last_response, slept, request, log >>

\* test_api_connection has not returned.
NotTested == "none"

NoOutcome == [state |-> "none", cls |-> "", msg |-> <<>>, value |-> <<>>]

Result(v) == [state |-> "result", cls |-> "", msg |-> <<>>, value |-> v]

Exc(cls, msg) == [state |-> "exception", cls |-> cls, msg |-> msg, value |-> <<>>]

Init ==
  /\ pc = [i \in Invs |-> "idle"]
  /\ task = [i \in Invs |-> "generate_text"]
  /\ prompt = [i \in Invs |-> PyNone]
  /\ categories = [i \in Invs |-> PyNone]
  /\ attempt_number = [i \in Invs |-> 0]
  /\ outcome = [i \in Invs |-> NoOutcome]
  /\ next_sleep = [i \in Invs |-> 0]
  /\ delivered = [i \in Invs |-> NoOutcome]
  /\ upstream_calls = [i \in Invs |-> 0]
  /\ sleeps = [i \in Invs |-> <<>>]
  /\ failures = [i \in Invs |-> 0]
  /\ retryable_failures = [i \in Invs |-> 0]
  /\ last_attempt = [i \in Invs |-> NoOutcome]
  /\ last_error_msg = [i \in Invs |-> <<>>]
  /\ last_error_code = [i \in Invs |-> NoCode]
  /\ last_response = [i \in Invs |-> <<>>]
  /\ slept = [i \in Invs |-> 0]
  /\ request = [i \in Invs |-> NoRequest]
  /\ log = [i \in Invs |-> <<>>]
  /\ window_hits = [k \in LimitKeys |-> 0]
  /\ reply = NoReply
  /\ inflight = NoInflight
  /\ connection_ok = NotTested

\* ------------------------------------------------------- tenacity policy
\* Variant: every failed outcome is retried.
retry_any_exception(o) == o.state = "exception"

\* retry_on_rate_limit(retry_state)
retry_on_rate_limit(o) ==
  IF o.state = "exception" THEN is_retryable_error(o.msg) ELSE FALSE

\* Variant: stops one attempt late.
stop_after_attempt_late(n) == n > MaxAttemptNumber

\* Variant: stops one attempt early.
stop_after_attempt_early(n) == n >= MaxAttemptNumber - 1

\* stop_after_attempt(5)(retry_state)
stop_after_attempt(n) == n >= MaxAttemptNumber

\* Variant: the max=60 cap is missing.
wait_exponential_uncapped(n) ==
  Max2(Max2(0, WaitMin), WaitMultiplier * Pow(ExpBase, n - 1))

\* Variant: a constant delay.
wait_fixed(n) == WaitMin

\* Variant: the exponent is the attempt number, not the attempt number - 1.
wait_exponential_from_two(n) ==
  Max2(Max2(0, WaitMin), Min2(WaitMultiplier * Pow(ExpBase, n), WaitMax))

\* wait_exponential(multiplier=1, min=1, max=60)(retry_state)
wait_exponential(n) ==
  Max2(Max2(0, WaitMin), Min2(WaitMultiplier * Pow(ExpBase, n - 1), WaitMax))

\* ------------------------------------------------------------- invokers
\* Variant: the isinstance checks are missing.
Validate_truthiness_only(t, p, c) ==
  IF t \in {"generate_text", "generate_code"}
  THEN IF ~Truthy(p) THEN Exc("ValueError", PromptErrorMsg) ELSE NoOutcome
  ELSE IF ~Truthy(p)
       THEN Exc("ValueError", TextErrorMsg)
       ELSE IF ~Truthy(c)
            THEN Exc("ValueError", CategoriesErrorMsg)
            ELSE NoOutcome

\* The ValueError the argument checks raise, or NoOutcome when they pass.
Validate(t, p, c) ==
  IF t \in {"generate_text", "generate_code"}
  THEN IF ~Truthy(p) \/ ~IsInstance(p, "str")
       THEN Exc("ValueError", PromptErrorMsg)
       ELSE NoOutcome
  ELSE IF ~Truthy(p) \/ ~IsInstance(p, "str")
       THEN Exc("ValueError", TextErrorMsg)
       ELSE IF ~Truthy(c) \/ ~IsInstance(c, "list") \/ Len(c.items) = 0
            THEN Exc("ValueError", CategoriesErrorMsg)
            ELSE NoOutcome

\* response.content if hasattr(response, 'content') else str(response)
ResponseText(r) == IF r.has_content THEN r.content ELSE r.str

\* Variant: without a match the cleaned response itself is returned.
ClassifyMatch_fallback_response(cats, result) ==
  LET categories_lower == [k \in 1..Len(cats) |-> Lower(cats[k])]
      hits == {k \in 1..Len(cats) : Contains(result, categories_lower[k])}
  IN  IF hits = {} THEN result
      ELSE LET category == categories_lower[SetMin(hits)]
               original_index ==
                 SetMin({j \in 1..Len(cats) : categories_lower[j] = category})
           IN  cats[original_index]

\* Variant: the matched category is returned in its lower-cased form.
ClassifyMatch_lower_cased(cats, result) ==
  LET categories_lower == [k \in 1..Len(cats) |-> Lower(cats[k])]
      hits == {k \in 1..Len(cats) : Contains(result, categories_lower[k])}
  IN  IF hits = {} THEN cats[1]
      ELSE categories_lower[SetMin(hits)]

\* Variant: without a match the last category is returned.
ClassifyMatch_fallback_last(cats, result) ==
  LET categories_lower == [k \in 1..Len(cats) |-> Lower(cats[k])]
      hits == {k \in 1..Len(cats) : Contains(result, categories_lower[k])}
  IN  IF hits = {} THEN cats[Len(cats)]
      ELSE LET category == categories_lower[SetMin(hits)]
               original_index ==
                 SetMin({j \in 1..Len(cats) : categories_lower[j] = category})
           IN  cats[original_index]

\* The matching loop of classify_text over categories_lower.
ClassifyMatch(cats, result) ==
  LET categories_lower == [k \in 1..Len(cats) |-> Lower(cats[k])]
      hits == {k \in 1..Len(cats) : Contains(result, categories_lower[k])}
  IN  IF hits = {} THEN cats[1]
      ELSE LET category == categories_lower[SetMin(hits)]
               original_index ==
                 SetMin({j \in 1..Len(cats) : categories_lower[j] = category})
           IN  cats[original_index]

\* Variant: every task trims and lower-cases the response text.
ReturnValue_cleaned(t, c, r) ==
  IF t = "classify_text"
  THEN ClassifyMatch(c.items, Lower(Strip(ResponseText(r))))
  ELSE Lower(Strip(ResponseText(r)))

\* Value the function body returns for upstream response r.
ReturnValue(t, c, r) ==
  IF t = "classify_text"
  THEN ClassifyMatch(c.items, Lower(Strip(ResponseText(r))))
  ELSE ResponseText(r)

ApiErrorPrefix(t) ==
  CASE t = "generate_text" -> TextGenPrefix
    [] t = "generate_code" -> CodeGenPrefix
    [] OTHER               -> ClassifyPrefix

\* Variant: the rate-limit wrapper message does not repeat the indicator.
WrapError_short_prefix(t, error_msg) ==
  IF is_rate_limit_error(error_msg)
  THEN Exc("RateLimitError", <<"R","a","t","e"," ","l","i","m","i","t",":"," ">> \o error_msg)
  ELSE Exc("GeminiAPIError", ApiErrorPrefix(t) \o error_msg)

\* except Exception as e: the exception the function body raises instead.
WrapError(t, error_msg) ==
  IF is_rate_limit_error(error_msg)
  THEN Exc("RateLimitError", RateLimitPrefix \o error_msg)
  ELSE Exc("GeminiAPIError", ApiErrorPrefix(t) \o error_msg)

\* ---------------------------------------------------------------- actions
\* Variant: one retry state (attempt counter, delay) shared by all calls.
RetryStateOf_shared(i) == MainInv

\* Each call of the decorated function gets a retry state of its own.
RetryStateOf(i) == i

\* The caller calls the decorated function: tenacity starts attempt 1.
Invoke(i, t, p, c) ==
  /\ pc[i] = "idle"
  /\ UNCHANGED httpvars
  /\ UNCHANGED connection_ok
  /\ UNCHANGED log
  /\ UNCHANGED request
  /\ task' = [task EXCEPT ![i] = t]
  /\ prompt' = [prompt EXCEPT ![i] = p]
  /\ categories' = [categories EXCEPT ![i] = c]
  /\ attempt_number' = [attempt_number EXCEPT ![RetryStateOf(i)] = 1]
  /\ pc' = [pc EXCEPT ![i] = "attempt"]
  /\ UNCHANGED << outcome, next_sleep, delivered, upstream_calls, sleeps,
                  failures, retryable_failures, last_attempt, last_error_msg,
                  last_error_code, last_response, slept >>

\* The function body runs up to llm.invoke: argument checks, then the call.
BeginAttempt(i) ==
  /\ pc[i] = "attempt"
  /\ UNCHANGED httpvars
  /\ UNCHANGED connection_ok
  /\ UNCHANGED log
  /\ LET v == Validate(task[i], prompt[i], categories[i])
     IN  IF v.state = "exception"
         THEN /\ outcome' = [outcome EXCEPT ![i] = v]
              /\ failures' = [failures EXCEPT ![i] = @ + 1]
              /\ retryable_failures' = [retryable_failures EXCEPT ![i] =
                     IF retry_on_rate_limit(v) THEN @ + 1 ELSE @]
              /\ last_attempt' = [last_attempt EXCEPT ![i] = v]
              /\ pc' = [pc EXCEPT ![i] = "iter"]
              /\ UNCHANGED << upstream_calls, request >>
         ELSE /\ upstream_calls' = [upstream_calls EXCEPT ![i] = @ + 1]
              /\ request' = [request EXCEPT ![i] =
                    BuildRequest(task[i], prompt[i], categories[i])]
              /\ pc' = [pc EXCEPT ![i] = "calling"]
              /\ UNCHANGED << outcome, failures, retryable_failures,
                              last_attempt >>
  /\ UNCHANGED << task, prompt, categories, attempt_number, next_sleep,
                  delivered, sleeps, last_error_msg, last_error_code,
                  last_response, slept >>

\* llm.invoke returns r; the body post-processes and returns.
UpstreamReturn(i, r) ==
  /\ pc[i] = "calling"
  /\ UNCHANGED httpvars
  /\ UNCHANGED connection_ok
  /\ UNCHANGED log
  /\ UNCHANGED request
  /\ outcome' = [outcome EXCEPT ![i] =
                   Result(ReturnValue(task[i], categories[i], r))]
  /\ last_attempt' = [last_attempt EXCEPT ![i] =
                        Result(ReturnValue(task[i], categories[i], r))]
  /\ last_response' = [last_response EXCEPT ![i] = ResponseText(r)]
  /\ pc' = [pc EXCEPT ![i] = "iter"]
  /\ UNCHANGED << task, prompt, categories, attempt_number, next_sleep,
                  delivered, upstream_calls, sleeps, failures,
                  retryable_failures, last_error_msg, last_error_code, slept >>

\* llm.invoke raises the exception e; the body wraps str(e) and raises.
UpstreamRaise(i, e) ==
  /\ pc[i] = "calling"
  /\ UNCHANGED httpvars
  /\ UNCHANGED connection_ok
  /\ UNCHANGED log
  /\ UNCHANGED request
  /\ outcome' = [outcome EXCEPT ![i] = WrapError(task[i], StrOf(e))]
  /\ failures' = [failures EXCEPT ![i] = @ + 1]
  /\ retryable_failures' = [retryable_failures EXCEPT ![i] =
         IF retry_on_rate_limit(WrapError(task[i], StrOf(e)))
         THEN @ + 1 ELSE @]
  /\ last_attempt' = [last_attempt EXCEPT ![i] = WrapError(task[i], StrOf(e))]
  /\ last_error_msg' = [last_error_msg EXCEPT ![i] = StrOf(e)]
  /\ last_error_code' = [last_error_code EXCEPT ![i] = e.code]
  /\ pc' = [pc EXCEPT ![i] = "iter"]
  /\ UNCHANGED << task, prompt, categories, attempt_number, next_sleep,
                  delivered, upstream_calls, sleeps, last_response, slept >>

\* Variant: a warning with the attempt number and the error is logged.
LogRetryable_warning(entries, n, o) ==
  Append(entries, [level |-> "warning", attempt |-> n, error |-> o.msg])

\* Log entries after a retryable failure of attempt n: the retry predicate
\* and the decorator call no logger and configure no before_sleep hook.
LogRetryable(entries, n, o) == entries

\* Variant: reraise=False, the caller gets tenacity's RetryError.
Reraise_retry_error(o) == Exc("RetryError", <<>>)

\* What reraise=True hands to the caller when the attempts are exhausted.
Reraise(o) == o

\* tenacity's iter() after an attempt: return, raise, or schedule a sleep.
Iter(i) ==
  /\ pc[i] = "iter"
  /\ UNCHANGED httpvars
  /\ UNCHANGED connection_ok
  /\ log' = [log EXCEPT ![i] =
               IF retry_on_rate_limit(outcome[i])
               THEN LogRetryable(@, attempt_number[RetryStateOf(i)], outcome[i])
               ELSE @]
  /\ UNCHANGED request
  /\ IF ~retry_on_rate_limit(outcome[i])
     THEN /\ delivered' = [delivered EXCEPT ![i] = outcome[i]]
          /\ pc' = [pc EXCEPT ![i] =
                      IF outcome[i].state = "exception" THEN "raised"
                                                        ELSE "returned"]
          /\ UNCHANGED next_sleep
     ELSE IF stop_after_attempt(attempt_number[RetryStateOf(i)])
          THEN /\ delivered' = [delivered EXCEPT ![i] = Reraise(outcome[i])]
               /\ pc' = [pc EXCEPT ![i] = "raised"]
               /\ UNCHANGED next_sleep
          ELSE /\ next_sleep' = [next_sleep EXCEPT ![RetryStateOf(i)] =
                        wait_exponential(attempt_number[RetryStateOf(i)])]
               /\ pc' = [pc EXCEPT ![i] = "sleeping"]
               /\ UNCHANGED delivered
  /\ UNCHANGED << task, prompt, categories, attempt_number, outcome,
                  upstream_calls, sleeps, failures, retryable_failures,
                  last_attempt, last_error_msg, last_error_code,
                  last_response, slept >>

\* Variant: the sleep returns at once, whatever the delay.
SleepReturns_nonblocking(elapsed, delay) == TRUE

\* Variant: the sleep never finds its delay reached.
SleepReturns_never(elapsed, delay) == elapsed > delay

\* time.sleep(delay) returns once delay time units have elapsed.
SleepReturns(elapsed, delay) == elapsed >= delay

\* One time unit passes while invocation i is blocked in its backoff sleep.
Tick(i) ==
  /\ pc[i] = "sleeping"
  /\ UNCHANGED httpvars
  /\ UNCHANGED connection_ok
  /\ UNCHANGED log
  /\ UNCHANGED request
  /\ slept[i] < next_sleep[RetryStateOf(i)]
  /\ slept' = [slept EXCEPT ![i] = @ + 1]
  /\ UNCHANGED << pc, task, prompt, categories, attempt_number, outcome,
                  next_sleep, delivered, upstream_calls, sleeps, failures,
                  retryable_failures, last_attempt, last_error_msg,
                  last_error_code, last_response >>

\* prepare_for_next_attempt() and the sleep of next_sleep time units elapses.
SleepElapsed(i) ==
  /\ pc[i] = "sleeping"
  /\ UNCHANGED httpvars
  /\ UNCHANGED connection_ok
  /\ UNCHANGED log
  /\ UNCHANGED request
  /\ SleepReturns(slept[i], next_sleep[RetryStateOf(i)])
  /\ attempt_number' = [attempt_number EXCEPT ![RetryStateOf(i)] = @ + 1]
  /\ outcome' = [outcome EXCEPT ![i] = NoOutcome]
  /\ sleeps' = [sleeps EXCEPT ![i] = Append(@, slept[i])]
  /\ slept' = [slept EXCEPT ![i] = 0]
  /\ pc' = [pc EXCEPT ![i] = "attempt"]
  /\ UNCHANGED << task, prompt, categories, next_sleep, delivered,
                  upstream_calls, failures, retryable_failures, last_attempt,
                  last_error_msg, last_error_code, last_response >>

InvokeAny(i) ==
  \E t \in Tasks : \E p \in Prompts : \E c \in CategoryArgs :
    /\ (t # "classify_text" => c = PyNone)
    /\ Invoke(i, t, p, c)

UpstreamReturnAny(i) == \E r \in Responses : UpstreamReturn(i, r)

UpstreamRaiseAny(i) == \E e \in UpstreamErrors : UpstreamRaise(i, e)

Next ==
  \/ InvokeAny(MainInv)
  \/ BeginAttempt(MainInv)
  \/ UpstreamReturnAny(MainInv)
  \/ UpstreamRaiseAny(MainInv)
  \/ Iter(MainInv)
  \/ Tick(MainInv)
  \/ SleepElapsed(MainInv)

Spec == Init /\ [][Next]_vars

\* A step of the calling thread once the invocation has started: the
\* function body is entered, the upstream call returns or raises, tenacity
\* decides, time passes during a sleep, or the sleep returns.
Progress(i) ==
  \/ BeginAttempt(i)
  \/ UpstreamReturnAny(i)
  \/ UpstreamRaiseAny(i)
  \/ Iter(i)
  \/ Tick(i)
  \/ SleepElapsed(i)

\* The calling thread keeps running (it is blocked only inside the upstream
\* call or the sleep, and both end).
Fairness == WF_vars(Progress(MainInv))

LiveSpec == Spec /\ Fairness

\* Concurrent callers: every invocation slot runs, interleaved step by step.
\* The first caller uses generate_text, the others classify_text.
ConcTask(i) == IF i = MainInv THEN "generate_text" ELSE "classify_text"

ConcCategories(i) ==
  IF i = MainInv THEN PyNone ELSE PyList(<< <<"b">>, <<"A","B">> >>)

ConcErrors ==
  { UpstreamError(MsgUnavailable, NoCode), UpstreamError(MsgInvalidKey, NoCode) }

ConcResponse == [has_content |-> TRUE, content |-> <<" ","A","B","\n">>, str |-> <<>>]

ConcNext ==
  \E i \in Invs :
    \/ Invoke(i, ConcTask(i), PyStr(<<"h","i">>), ConcCategories(i))
    \/ BeginAttempt(i)
    \/ UpstreamReturn(i, ConcResponse)
    \/ \E e \in ConcErrors : UpstreamRaise(i, e)
    \/ Iter(i)
    \/ Tick(i)
    \/ SleepElapsed(i)

SpecConc == Init /\ [][ConcNext]_vars

\* ------------------------------------------------------------ HTTP layer
\* The invoker call of a handler has ended and its frame is gone; the next
\* call starts a new invocation.
ResetInvocation(i) ==
  /\ pc' = [pc EXCEPT ![i] = "idle"]
  /\ task' = [task EXCEPT ![i] = "generate_text"]
  /\ prompt' = [prompt EXCEPT ![i] = PyNone]
  /\ categories' = [categories EXCEPT ![i] = PyNone]
  /\ attempt_number' = [attempt_number EXCEPT ![i] = 0]
  /\ outcome' = [outcome EXCEPT ![i] = NoOutcome]
  /\ next_sleep' = [next_sleep EXCEPT ![i] = 0]
  /\ delivered' = [delivered EXCEPT ![i] = NoOutcome]
  /\ upstream_calls' = [upstream_calls EXCEPT ![i] = 0]
  /\ sleeps' = [sleeps EXCEPT ![i] = <<>>]
  /\ failures' = [failures EXCEPT ![i] = 0]
  /\ retryable_failures' = [retryable_failures EXCEPT ![i] = 0]
  /\ last_attempt' = [last_attempt EXCEPT ![i] = NoOutcome]
  /\ last_error_msg' = [last_error_msg EXCEPT ![i] = <<>>]
  /\ last_error_code' = [last_error_code EXCEPT ![i] = NoCode]
  /\ last_response' = [last_response EXCEPT ![i] = <<>>]
  /\ slept' = [slept EXCEPT ![i] = 0]
  /\ request' = [request EXCEPT ![i] = NoRequest]
  /\ log' = [log EXCEPT ![i] = <<>>]

\* A POST arrives: the limiter counts it and admits or rejects it; an
\* admitted request enters the post method, which answers 400 when a
\* required field is missing or empty and otherwise goes on to the invoker.
Post(c, e, body) ==
  /\ inflight = NoInflight
  /\ window_hits' = LimiterHit(window_hits, c, e)
  /\ IF ~LimiterAdmits(window_hits, c, e)
     THEN /\ reply' = HttpReply(c, e, 429, "message", <<>>)
          /\ UNCHANGED inflight
     ELSE IF HandlerRejects(e, body)
          THEN /\ reply' = HttpReply(c, e, 400, "error", BadRequestMsg(e))
               /\ UNCHANGED inflight
          ELSE /\ reply' = NoReply
               /\ inflight' = [client |-> c, endpoint |-> e, body |-> body]
  /\ UNCHANGED invvars
  /\ UNCHANGED connection_ok

TextGeneration_post(c, body) == Post(c, TextEndpoint, body)

CodeGeneration_post(c, body) == Post(c, CodeEndpoint, body)

TextClassification_post(c, body) == Post(c, ClassifyEndpoint, body)

\* try: generate_text(prompt) / generate_code(prompt) /
\* classify_text(text, categories)
PostCallsInvoker ==
  /\ inflight # NoInflight
  /\ IF inflight.endpoint = ClassifyEndpoint
     THEN Invoke(MainInv, "classify_text", inflight.body.text,
                 inflight.body.categories)
     ELSE Invoke(MainInv, TaskOf(inflight.endpoint), inflight.body.prompt,
                 PyNone)

\* The invoker returned or raised: the post method answers 200 with the
\* result or 500 with str(e).
PostReturns ==
  /\ inflight # NoInflight
  /\ pc[MainInv] \in {"returned", "raised"}
  /\ reply' =
       IF pc[MainInv] = "returned"
       THEN HttpReply(inflight.client, inflight.endpoint, 200,
                      ResultField(inflight.endpoint), delivered[MainInv].value)
       ELSE HttpReply(inflight.client, inflight.endpoint, 500, "error",
                      delivered[MainInv].msg)
  /\ inflight' = NoInflight
  /\ UNCHANGED window_hits
  /\ UNCHANGED connection_ok
  /\ ResetInvocation(MainInv)

\* GET /api/v1/health: counted by the limiter under the default limits,
\* then answered by health_check.
health_check(c) ==
  /\ window_hits' = LimiterHit(window_hits, c, HealthEndpoint)
  /\ reply' =
       IF LimiterAdmits(window_hits, c, HealthEndpoint)
       THEN HttpReply(c, HealthEndpoint, 200, "status", HealthyMsg)
       ELSE HttpReply(c, HealthEndpoint, 429, "message", <<>>)
  /\ UNCHANGED inflight
  /\ UNCHANGED invvars
  /\ UNCHANGED connection_ok

\* A full period passes: every window of at most that length has run out.
WindowsExpire(per) ==
  /\ \E k \in LimitKeys : k[3] \in ExpiredWith(per) /\ window_hits[k] > 0
  /\ window_hits' = [k \in LimitKeys |->
                       IF k[3] \in ExpiredWith(per) THEN 0 ELSE window_hits[k]]
  /\ UNCHANGED << reply, inflight >>
  /\ UNCHANGED invvars
  /\ UNCHANGED connection_ok

MinuteHits(c, e) == window_hits[<<c, e, "minute">>]

\* The routes and callers of the POST workload.
HttpWorkload ==
  ({MainClient} \X PostEndpoints) \cup {<<OtherClient, TextEndpoint>>}

\* One route of the main caller at a time is driven to its limit; its other
\* routes and the other caller receive background traffic.
MayRequest(c, e) ==
  \/ MinuteHits(c, e) < MaxBackgroundRequests
  \/ /\ c = MainClient
     /\ \A k \in HttpWorkload \ {<<c, e>>} :
          MinuteHits(k[1], k[2]) <= MaxBackgroundRequests

\* The upstream failures met while HTTP requests are served.
HttpErrors == { UpstreamError(MsgUnavailable, NoCode) }

\* The upstream failures met by the invokers the post methods call: a
\* rate limit, which is retried, and a fatal one.
PostErrors ==
  { UpstreamError(MsgQuota, NoCode), UpstreamError(MsgInvalidKey, NoCode) }

HttpNext ==
  \/ \E c \in Clients : \E b \in GenerateBodies :
       /\ <<c, TextEndpoint>> \in HttpWorkload
       /\ MayRequest(c, TextEndpoint)
       /\ TextGeneration_post(c, b)
  \/ \E b \in GenerateBodies :
       /\ MayRequest(MainClient, CodeEndpoint)
       /\ CodeGeneration_post(MainClient, b)
  \/ \E b \in ClassifyBodies :
       /\ MayRequest(MainClient, ClassifyEndpoint)
       /\ TextClassification_post(MainClient, b)
  \/ PostCallsInvoker
  \/ BeginAttempt(MainInv)
  \/ UpstreamReturn(MainInv, ConcResponse)
  \/ \E e \in PostErrors : UpstreamRaise(MainInv, e)
  \/ Iter(MainInv)
  \/ Tick(MainInv)
  \/ SleepElapsed(MainInv)
  \/ PostReturns
  \/ WindowsExpire("minute")

SpecHttp == Init /\ [][HttpNext]_vars

\* Health probes of one caller next to a POST of the same caller whose
\* invocation is in progress, and the probes of another caller.
HealthNext ==
  \/ health_check(MainClient)
  \/ /\ window_hits[<<OtherClient, HealthEndpoint, "hour">>] < MaxBackgroundRequests
     /\ health_check(OtherClient)
  \/ \E b \in GenerateBodies :
       /\ MinuteHits(MainClient, TextEndpoint) < MaxBackgroundRequests
       /\ TextGeneration_post(MainClient, b)
  \/ PostCallsInvoker
  \/ BeginAttempt(MainInv)
  \/ UpstreamReturn(MainInv, ConcResponse)
  \/ \E e \in HttpErrors : UpstreamRaise(MainInv, e)
  \/ Iter(MainInv)
  \/ Tick(MainInv)
  \/ SleepElapsed(MainInv)
  \/ PostReturns
  \/ WindowsExpire("day")

SpecHealth == Init /\ [][HealthNext]_vars

\* ------------------------------------------------------ connection test
\* generate_text("Say 'API connection successful'")
ConnectionPrompt ==
  << "S","a","y"," ","'","A","P","I"," ","c","o","n","n","e","c","t",
     "i","o","n"," ","s","u","c","c","e","s","s","f","u","l","'" >>

\* An upstream response whose content is the empty text.
EmptyResponse == [has_content |-> TRUE, content |-> <<>>, str |-> <<>>]

ConnectionResponses == Responses \cup {EmptyResponse}

\* Variant: no try/except, a failure of generate_text reaches the caller.
test_api_connection_uncaught(o) ==
  IF o.state = "result"
  THEN IF Len(o.value) > 0 THEN "True" ELSE "False"
  ELSE "raised"

\* What test_api_connection gives its caller when generate_text ended
\* with o: len(test_response) > 0, or False from the except branch.
test_api_connection(o) ==
  IF o.state = "result"
  THEN IF Len(o.value) > 0 THEN "True" ELSE "False"
  ELSE "False"

\* try: test_response = generate_text(...)
ConnectionTestCalls ==
  /\ connection_ok = NotTested
  /\ Invoke(MainInv, "generate_text", PyStr(ConnectionPrompt), PyNone)

\* generate_text returned or raised: test_api_connection returns.
ConnectionTestReturns ==
  /\ connection_ok = NotTested
  /\ pc[MainInv] \in {"returned", "raised"}
  /\ connection_ok' = test_api_connection(delivered[MainInv])
  /\ UNCHANGED httpvars
  /\ UNCHANGED invvars

ConnectionNext ==
  \/ ConnectionTestCalls
  \/ BeginAttempt(MainInv)
  \/ \E r \in ConnectionResponses : UpstreamReturn(MainInv, r)
  \/ \E e \in UpstreamErrors : UpstreamRaise(MainInv, e)
  \/ Iter(MainInv)
  \/ Tick(MainInv)
  \/ SleepElapsed(MainInv)
  \/ ConnectionTestReturns

SpecConnection == Init /\ [][ConnectionNext]_vars

TypeOK ==
  \A i \in Invs :
    /\ pc[i] \in {"idle", "attempt", "calling", "iter", "sleeping",
                  "returned", "raised"}
    /\ task[i] \in Tasks
    /\ attempt_number[i] \in 0..MaxAttemptNumber

\* ================================================================ claims
Terminated(i) == pc[i] \in {"returned", "raised"}

\* Every upstream call so far of invocation i failed with an error the retry
\* predicate classifies retryable, and there was at least one.
AllRetryableFailures(i) ==
  /\ upstream_calls[i] >= 1
  /\ failures[i] = upstream_calls[i]
  /\ retryable_failures[i] = upstream_calls[i]

RECURSIVE SeqSum(_)
SeqSum(q) == IF q = <<>> THEN 0 ELSE Head(q) + SeqSum(Tail(q))

\* The delay sequence the specification names.
BackoffSeq == <<1, 2, 4, 8, 16>>

\* C1: an invocation never makes more than 5 upstream attempts.
C1_AtMostFiveAttempts ==
  \A i \in Invs : upstream_calls[i] <= 5 /\ attempt_number[i] <= 5

C1_Witness == upstream_calls[MainInv] = 5 /\ Terminated(MainInv)

\* C2: when every upstream call fails with a retryable error, the invocation
\* ends only after exactly 5 upstream attempts, and it ends by raising.
C2_AllRetryableGivesFive ==
  \A i \in Invs :
    (Terminated(i) /\ AllRetryableFailures(i)) =>
      /\ pc[i] = "raised"
      /\ upstream_calls[i] = 5
      /\ delivered[i].state = "exception"

C2_Witness ==
  /\ pc[MainInv] = "raised"
  /\ AllRetryableFailures(MainInv)
  /\ last_error_msg[MainInv] = MsgUnavailable

\* C3: k < 5 retryable failures followed by a success return the value of
\* attempt k+1 after exactly k+1 upstream attempts and exactly k waits whose
\* delays are the first k entries of 1,2,4,8,16.
C3_SuccessAfterKFailures ==
  \A i \in Invs :
    (pc[i] = "returned" /\ retryable_failures[i] = failures[i]) =>
      LET k == failures[i]
      IN  /\ k < 5
          /\ upstream_calls[i] = k + 1
          /\ sleeps[i] = SubSeq(BackoffSeq, 1, k)
          /\ delivered[i].state = "result"
          /\ delivered[i] = last_attempt[i]

C3_Witness ==
  /\ pc[MainInv] = "returned"
  /\ failures[MainInv] = 4
  /\ retryable_failures[MainInv] = 4
  /\ sleeps[MainInv] = <<1, 2, 4, 8>>

\* The first upstream attempt of invocation i failed with a fatal error.
FirstAttemptFatal(i) ==
  /\ upstream_calls[i] = 1
  /\ failures[i] = 1
  /\ last_attempt[i].state = "exception"
  /\ ~is_retryable_error(last_attempt[i].msg)

\* C4: a fatal error on the first upstream attempt ends the invocation in
\* failure with that one attempt and no backoff wait: no wait has happened,
\* and from then on no further attempt or wait is made.
C4_FatalFirstAttempt ==
  /\ [](\A i \in Invs :
          FirstAttemptFatal(i) =>
            pc[i] \in {"iter", "raised"} /\ sleeps[i] = <<>>)
  /\ [][\A i \in Invs :
          FirstAttemptFatal(i) =>
            /\ pc'[i] \in {"iter", "raised"}
            /\ (pc'[i] = "raised" => delivered'[i].state = "exception")
            /\ upstream_calls'[i] = 1
            /\ sleeps'[i] = <<>>]_vars

C4_Witness ==
  /\ pc[MainInv] = "raised"
  /\ FirstAttemptFatal(MainInv)
  /\ last_error_msg[MainInv] = MsgInvalidKey

\* The arguments of invocation i are invalid in the claim's sense.
InvalidInput(i) ==
  LET notNonEmptyStr(v) == v.ty # "str" \/ v.s = <<>>
      notNonEmptyList(v) == v.ty # "list" \/ v.items = <<>>
  IN  IF task[i] = "classify_text"
      THEN notNonEmptyStr(prompt[i]) \/ notNonEmptyList(categories[i])
      ELSE notNonEmptyStr(prompt[i])

\* C5: an invocation with an invalid input fails with the validation error
\* after zero upstream calls and zero waits, in its first attempt.
C5_ValidationNoUpstream ==
  \A i \in Invs :
    (pc[i] # "idle" /\ InvalidInput(i)) =>
      /\ upstream_calls[i] = 0
      /\ sleeps[i] = <<>>
      /\ attempt_number[i] = 1
      /\ pc[i] \in {"attempt", "iter", "raised"}
      /\ (pc[i] = "raised" => delivered[i].cls = "ValueError")

C5_Witness ==
  /\ pc[MainInv] = "raised"
  /\ task[MainInv] = "classify_text"
  /\ prompt[MainInv] = PyStr(<<"h","i">>)
  /\ categories[MainInv] = PyStr(<<"a","b">>)
  /\ delivered[MainInv] = Exc("ValueError", CategoriesErrorMsg)

\* C6: the delay after the n-th failed attempt is min(2^(n-1), 60): 1 first,
\* doubling, never above 60.
C6_BackoffDelay ==
  \A i \in Invs :
    /\ \A n \in 1..Len(sleeps[i]) :
         /\ sleeps[i][n] = Min2(Pow(2, n - 1), 60)
         /\ sleeps[i][n] <= 60
         /\ (n > 1 => sleeps[i][n] = 2 * sleeps[i][n - 1])
    /\ (pc[i] = "sleeping" =>
          next_sleep[i] = Min2(Pow(2, attempt_number[i] - 1), 60))
    /\ \A n \in 1..MaxWaitProbe :
         /\ wait_exponential(n) = Min2(Pow(2, n - 1), 60)
         /\ wait_exponential(n) <= 60

C6_Witness == sleeps[MainInv] = <<1, 2, 4, 8>>

\* C7 (as stated): an invocation whose upstream call always fails with a
\* retryable error has waited 1+2+4+8+16 = 31 time units when it gives up.
C7_TotalBackoff31 ==
  \A i \in Invs :
    (pc[i] = "raised" /\ AllRetryableFailures(i)) => SeqSum(sleeps[i]) = 31

\* C7 (amended): such an invocation has waited 1+2+4+8 = 15 time units, in
\* the four waits between its five attempts.
C7_TotalBackoff15 ==
  \A i \in Invs :
    (pc[i] = "raised" /\ AllRetryableFailures(i)) =>
      SeqSum(sleeps[i]) = 15 /\ Len(sleeps[i]) = 4

C7_Witness ==
  /\ pc[MainInv] = "raised"
  /\ AllRetryableFailures(MainInv)
  /\ SeqSum(sleeps[MainInv]) = 15

\* C8: an invocation that ends in failure delivers exactly the exception its
\* last attempt raised (same class, same message), and an invocation whose
\* last attempt raised never returns a value.
C8_LastErrorSurfaced ==
  \A i \in Invs :
    /\ pc[i] = "raised" =>
         /\ last_attempt[i].state = "exception"
         /\ delivered[i] = last_attempt[i]
    /\ pc[i] = "returned" => last_attempt[i].state = "result"

C8_Witness ==
  /\ pc[MainInv] = "raised"
  /\ upstream_calls[MainInv] = 5
  /\ delivered[MainInv] = Exc("GeminiAPIError", CodeGenPrefix \o MsgUnavailable)

\* C9: an invocation that ends with RateLimitError has made exactly 5
\* upstream attempts, and the message contains the last upstream message.
C9_RateLimitErrorOnlyAfterFive ==
  \A i \in Invs :
    (pc[i] = "raised" /\ delivered[i].cls = "RateLimitError") =>
      /\ upstream_calls[i] = 5
      /\ Contains(delivered[i].msg, last_error_msg[i])

C9_Witness ==
  /\ pc[MainInv] = "raised"
  /\ delivered[MainInv].cls = "RateLimitError"
  /\ last_error_msg[MainInv] = MsgRateLimitCode

\* The rate-limit phrases as the specification lists them.
SpecRateLimitPhrases ==
  << <<"r","a","t","e"," ","l","i","m","i","t">>,
     <<"q","u","o","t","a"," ","e","x","c","e","e","d","e","d">>,
     <<"t","o","o"," ","m","a","n","y"," ","r","e","q","u","e","s","t","s">>,
     <<"4","2","9">>,
     <<"r","e","s","o","u","r","c","e"," ","e","x","h","a","u","s","t","e","d">>,
     <<"r","e","s","o","u","r","c","e","_","e","x","h","a","u","s","t","e","d">> >>

\* The phrases of the amended claim.
AmendedRateLimitPhrases ==
  << <<"r","a","t","e"," ","l","i","m","i","t"," ","e","x","c","e","e","d","e","d">>,
     <<"q","u","o","t","a"," ","e","x","c","e","e","d","e","d">>,
     <<"t","o","o"," ","m","a","n","y"," ","r","e","q","u","e","s","t","s">>,
     <<"4","2","9">>,
     <<"r","e","s","o","u","r","c","e"," ","e","x","h","a","u","s","t","e","d">> >>

\* Invocation i is deciding on an upstream failure whose message contains,
\* case-insensitively, one of the phrases.
DecidingOnPhrase(i, phrases) ==
  /\ pc[i] = "iter"
  /\ outcome[i].state = "exception"
  /\ outcome[i].cls # "ValueError"
  /\ \E k \in 1..Len(phrases) : Contains(Lower(last_error_msg[i]), phrases[k])

\* The classifier marks the failure retryable: on the upstream message
\* itself, and on the exception the retry decision is taken on.
MarkedRetryable(i) ==
  /\ is_retryable_error(last_error_msg[i])
  /\ retry_on_rate_limit(outcome[i])

\* C10 (as stated): every upstream error message containing "rate limit",
\* "quota exceeded", "too many requests", "429", "resource exhausted" or
\* "resource_exhausted" (case-insensitively) is classified retryable.
C10_SpecPhrasesRetryable ==
  \A i \in Invs : DecidingOnPhrase(i, SpecRateLimitPhrases) => MarkedRetryable(i)

\* C10 (amended): every upstream error message containing "rate limit
\* exceeded", "quota exceeded", "too many requests", "429" or "resource
\* exhausted" (case-insensitively) is classified retryable.
C10_CodePhrasesRetryable ==
  \A i \in Invs :
    DecidingOnPhrase(i, AmendedRateLimitPhrases) => MarkedRetryable(i)

C10_Witness ==
  /\ DecidingOnPhrase(MainInv, AmendedRateLimitPhrases)
  /\ last_error_msg[MainInv] = MsgTooMany
  /\ attempt_number[MainInv] = 2

\* The last attempt of invocation i failed in the upstream call.
UpstreamFailed(i) ==
  /\ last_attempt[i].state = "exception"
  /\ last_attempt[i].cls # "ValueError"

\* msg contains, case-insensitively, one of the phrases.
HasPhrase(msg, phrases) ==
  \E k \in 1..Len(phrases) : Contains(Lower(msg), phrases[k])

\* The phrases the specification adds for the broader retryable set.
SpecTransientPhrases ==
  << <<"s","e","r","v","i","c","e"," ","u","n","a","v","a","i","l","a","b","l","e">>,
     <<"t","i","m","e","o","u","t">>,
     <<"c","o","n","n","e","c","t","i","o","n"," ","e","r","r","o","r">>,
     <<"5","0","0">>,
     <<"5","0","2">>,
     <<"5","0","3">>,
     <<"5","0","4">> >>

SpecRetryablePhrases == SpecRateLimitPhrases \o SpecTransientPhrases

\* The status codes the specification treats as retryable.
RetryableStatus(c) == c = 429 \/ (c >= 500 /\ c <= 599)

\* The last upstream error of invocation i has none of the phrases and no
\* 429/5xx status code.
NoPhraseNoStatus(i, phrases) ==
  /\ UpstreamFailed(i)
  /\ ~HasPhrase(last_error_msg[i], phrases)
  /\ ~RetryableStatus(last_error_code[i])

\* The last error is classified fatal and is not retried: the invocation is
\* deciding on it or has raised it, and is never waiting or calling again.
FatalNotRetried(i) ==
  /\ ~is_retryable_error(last_error_msg[i])
  /\ ~retry_on_rate_limit(last_attempt[i])
  /\ pc[i] \in {"iter", "raised"}

\* C11 (as stated): an upstream error whose message contains none of the
\* phrases the specification names, and that has no 429/5xx status code, is
\* classified fatal and not retried.
C11_SpecPhrasesElseFatal ==
  \A i \in Invs : NoPhraseNoStatus(i, SpecRetryablePhrases) => FatalNotRetried(i)

\* The specification's phrases plus the two the code also retries on.
AmendedRetryablePhrases ==
  SpecRetryablePhrases \o
  << <<"t","e","m","p","o","r","a","r","y"," ","f","a","i","l","u","r","e">>,
     <<"r","a","t","e","_","l","i","m","i","t","_","e","x","c","e","e","d","e","d">> >>

\* C11 (amended): the same, with "temporary failure" and
\* "rate_limit_exceeded" added to the phrases.
C11_AmendedPhrasesElseFatal ==
  \A i \in Invs :
    NoPhraseNoStatus(i, AmendedRetryablePhrases) => FatalNotRetried(i)

C11_Witness ==
  /\ pc[MainInv] = "raised"
  /\ NoPhraseNoStatus(MainInv, AmendedRetryablePhrases)
  /\ last_error_msg[MainInv] = MsgNotFound
  /\ upstream_calls[MainInv] = 2

\* C12 (as stated): an upstream error carrying structured status 429 is
\* classified retryable, whatever its message.
C12_Status429Retryable ==
  \A i \in Invs :
    (UpstreamFailed(i) /\ last_error_code[i] = 429) =>
      retry_on_rate_limit(last_attempt[i])

\* Every indicator phrase of the two classifiers.
CodeIndicatorPhrases == retryable_indicators \o rate_limit_indicators

\* C12 (amended): classification inspects the message only: an upstream
\* error carrying structured status 429 is classified retryable exactly when
\* its message contains one of the classifiers' indicator phrases, and is
\* fatal (raised at once) otherwise.
C12_Status429ByMessageOnly ==
  \A i \in Invs :
    (UpstreamFailed(i) /\ last_error_code[i] = 429) =>
      /\ retry_on_rate_limit(last_attempt[i])
           <=> HasPhrase(last_error_msg[i], CodeIndicatorPhrases)
      /\ (~HasPhrase(last_error_msg[i], CodeIndicatorPhrases) =>
            pc[i] \in {"iter", "raised"})

C12_Witness ==
  /\ pc[MainInv] = "raised"
  /\ last_error_code[MainInv] = 429
  /\ last_error_msg[MainInv] = MsgInvalidKey
  /\ upstream_calls[MainInv] = 1

\* C13: every error is_rate_limit_error accepts is also accepted by
\* is_retryable_error, which accepts the transient phrases as well.
C13_RetryableSupersetOfRateLimit ==
  \A i \in Invs :
    UpstreamFailed(i) =>
      /\ is_rate_limit_error(last_error_msg[i])
           => is_retryable_error(last_error_msg[i])
      /\ HasPhrase(last_error_msg[i], SpecTransientPhrases)
           => is_retryable_error(last_error_msg[i])

\* The state of the specification's per-invocation state machine that
\* invocation i is in.  The argument checks of attempt 1 are VALIDATING; the
\* upstream call and the return of its value are CALLING; deciding on an
\* upstream failure, the backoff wait and the re-entry of the function body
\* are RETRYING.
Phase(i) ==
  CASE pc[i] = "idle"     -> "IDLE"
    [] pc[i] = "attempt"  -> IF attempt_number[i] = 1 THEN "VALIDATING"
                                                      ELSE "RETRYING"
    [] pc[i] = "calling"  -> "CALLING"
    [] pc[i] = "iter"     -> IF outcome[i].state = "result" THEN "CALLING"
                             ELSE IF outcome[i].cls = "ValueError"
                                  THEN "VALIDATING"
                                  ELSE "RETRYING"
    [] pc[i] = "sleeping" -> "RETRYING"
    [] pc[i] = "returned" -> "SUCCESS"
    [] OTHER              -> "FAILED"

\* The transitions of the state machine (a rejected input ends VALIDATING in
\* FAILED).
PhaseTransitions ==
  { <<"IDLE", "VALIDATING">>,
    <<"VALIDATING", "CALLING">>, <<"VALIDATING", "FAILED">>,
    <<"CALLING", "SUCCESS">>, <<"CALLING", "RETRYING">>,
    <<"CALLING", "FAILED">>,
    <<"RETRYING", "CALLING">>, <<"RETRYING", "FAILED">> }

C15_NoCallBeforeDelayElapsed ==
  [][\A i \in Invs :
       /\ (pc[i] = "sleeping" /\ pc'[i] # "sleeping") =>
            /\ slept[i] >= next_sleep[i]
            /\ pc'[i] = "attempt"
            /\ sleeps'[i] = Append(sleeps[i], next_sleep[i])
       /\ (pc[i] = "sleeping" /\ pc'[i] = "sleeping") =>
            /\ upstream_calls'[i] = upstream_calls[i]
            /\ attempt_number'[i] = attempt_number[i]
       /\ upstream_calls'[i] # upstream_calls[i] =>
            /\ upstream_calls'[i] = upstream_calls[i] + 1
            /\ Len(sleeps[i]) = upstream_calls[i]
            /\ pc[i] = "attempt"
       /\ (pc[i] # "sleeping" /\ pc'[i] = "sleeping") =>
            /\ pc[i] = "iter"
            /\ failures[i] = Len(sleeps[i]) + 1
            /\ slept'[i] = 0]_vars

C15_Witness ==
  /\ pc[MainInv] = "calling"
  /\ upstream_calls[MainInv] = 5
  /\ sleeps[MainInv] = <<1, 2, 4, 8>>
  /\ slept[MainInv] = 0

\* Everything the model holds about invocation i.
InvState(i) ==
  << pc[i], task[i], prompt[i], categories[i], attempt_number[i], outcome[i],
     next_sleep[i], delivered[i], upstream_calls[i], sleeps[i], failures[i],
     retryable_failures[i], last_attempt[i], last_error_msg[i],
     last_error_code[i], last_response[i], slept[i] >>

\* Another invocation than the main one.
OtherInv == CHOOSE i \in Invs : i # MainInv

C17_Terminates ==
  \A i \in Invs : (pc[i] # "idle") ~> Terminated(i)

C17_Witness ==
  /\ pc[MainInv] = "returned"
  /\ task[MainInv] = "generate_code"
  /\ upstream_calls[MainInv] = 5
  /\ delivered[MainInv].state = "result"

\* The last attempt of classify_text invocation i got an upstream response.
Classified(i) ==
  /\ task[i] = "classify_text"
  /\ last_attempt[i].state = "result"

\* The upstream response as classify_text compares it: trimmed, lower-cased.
CleanResponse(i) == Lower(Strip(last_response[i]))

\* C18: a value returned by classify_text is an element of the categories
\* list the caller supplied.
C18_ResultIsACategory ==
  \A i \in Invs :
    (Classified(i) /\ pc[i] \in {"iter", "returned"}) =>
      /\ \E k \in 1..Len(categories[i].items) :
           categories[i].items[k] = last_attempt[i].value
      /\ pc[i] = "returned" =>
           \E k \in 1..Len(categories[i].items) :
             categories[i].items[k] = delivered[i].value

C18_Witness ==
  /\ pc[MainInv] = "returned"
  /\ task[MainInv] = "classify_text"
  /\ last_response[MainInv] = <<" ","A","B","\n">>
  /\ delivered[MainInv].value = <<"A","b">>

\* C19: when the trimmed, lower-cased response equals the lower-cased form
\* of some entry of the list, classify_text returns an entry whose
\* lower-cased form equals that response.
C19_ExactMatchReturned ==
  \A i \in Invs :
    ( /\ Classified(i)
      /\ pc[i] = "returned"
      /\ \E k \in 1..Len(categories[i].items) :
           Lower(categories[i].items[k]) = CleanResponse(i) )
      => Lower(delivered[i].value) = CleanResponse(i)

\* No entry of the list, lower-cased, occurs in the cleaned response.
NoCategoryInResponse(i) ==
  \A k \in 1..Len(categories[i].items) :
    ~Contains(CleanResponse(i), Lower(categories[i].items[k]))

\* C20: when no entry of the list occurs in the cleaned response,
\* classify_text returns categories[0] as its value; the attempt does not
\* raise and the invocation ends by returning it.
C20_FallbackFirstCategory ==
  \A i \in Invs :
    (Classified(i) /\ NoCategoryInResponse(i)) =>
      /\ last_attempt[i].value = categories[i].items[1]
      /\ pc[i] \in {"iter", "returned"}
      /\ pc[i] = "returned" =>
           delivered[i] = Result(categories[i].items[1])

C20_Witness ==
  /\ pc[MainInv] = "returned"
  /\ task[MainInv] = "classify_text"
  /\ last_response[MainInv] = <<"n","o">>
  /\ delivered[MainInv].value = <<"b">>
  /\ upstream_calls[MainInv] = 3

\* Indices of the entries whose lower-cased form occurs in the cleaned
\* response.
MatchingIndices(i) ==
  {k \in 1..Len(categories[i].items) :
     Contains(CleanResponse(i), Lower(categories[i].items[k]))}

GenerateTasks == {"generate_text", "generate_code"}

\* C22: generate_text and generate_code return the text of the successful
\* upstream response unchanged, after any number of failed attempts; the
\* framing of generate_code is part of the prompt sent upstream only.
C22_ResponseReturnedUnchanged ==
  \A i \in Invs :
    /\ (task[i] \in GenerateTasks /\ last_attempt[i].state = "result") =>
         /\ last_attempt[i].value = last_response[i]
         /\ pc[i] = "returned" => delivered[i] = Result(last_response[i])
    /\ (task[i] = "generate_code" /\ upstream_calls[i] >= 1) =>
         /\ request[i].content # prompt[i].s
         /\ Contains(request[i].content, prompt[i].s)

C22_Witness ==
  /\ pc[MainInv] = "returned"
  /\ task[MainInv] = "generate_code"
  /\ failures[MainInv] = 2
  /\ delivered[MainInv].value = <<" ","A","B","\n">>
  /\ request[MainInv].content = CodePromptHead \o <<"h","i">> \o CodePromptTail

\* C23: every upstream attempt of an invocation is made with the task's
\* constants (temperature 0.7 and cap 2048 for generate_text, 0.2 and 2048
\* for generate_code, 0.0 and 50 for classify_text), and a later attempt
\* sends the same configuration and prompt as the first.
C23_SameRequestEveryAttempt ==
  /\ [](\A i \in Invs :
          upstream_calls[i] >= 1 =>
            /\ task[i] = "generate_text" =>
                 /\ request[i].temperature = "0.7"
                 /\ request[i].max_tokens = 2048
            /\ task[i] = "generate_code" =>
                 /\ request[i].temperature = "0.2"
                 /\ request[i].max_tokens = 2048
            /\ task[i] = "classify_text" =>
                 /\ request[i].temperature = "0.0"
                 /\ request[i].max_tokens = 50)
  /\ [][\A i \in Invs :
          upstream_calls[i] >= 1 => request'[i] = request[i]]_vars

C23_Witness ==
  /\ pc[MainInv] = "calling"
  /\ task[MainInv] = "classify_text"
  /\ upstream_calls[MainInv] = 3
  /\ request[MainInv].temperature = "0.0"
  /\ request[MainInv].max_tokens = 50

\* C24: each retryable failure of an invocation produces one warning log
\* entry carrying the attempt number and the triggering error.
C24_RetryableFailureLogged ==
  \A i \in Invs :
    pc[i] \in {"sleeping", "returned", "raised"} =>
      /\ Len(log[i]) = retryable_failures[i]
      /\ \A k \in 1..Len(log[i]) :
           log[i][k].level = "warning" /\ log[i][k].attempt = k

\* C24 (amended): no retryable failure produces a log entry; the attempts,
\* waits and outcome are decided without any logging step.
C24_NothingLogged ==
  \A i \in Invs : log[i] = <<>>

C24_Witness ==
  /\ pc[MainInv] = "raised"
  /\ retryable_failures[MainInv] = MaxAttemptNumber
  /\ Len(sleeps[MainInv]) = MaxAttemptNumber - 1
  /\ log[MainInv] = <<>>

\* One of the two classifiers accepts the upstream message itself.
RetryableOriginal(i) ==
  is_rate_limit_error(last_error_msg[i]) \/ is_retryable_error(last_error_msg[i])

\* C28: the retry decision, taken on the wrapped exception, equals
\* is_rate_limit_error(original) OR is_retryable_error(original): a failure
\* is followed by a wait only when one of them accepts the upstream
\* message, and an invocation raises before its fifth attempt only when
\* neither does.
C28_DecisionOnWrappedEqualsOriginal ==
  \A i \in Invs :
    UpstreamFailed(i) =>
      /\ retry_on_rate_limit(last_attempt[i]) <=> RetryableOriginal(i)
      /\ pc[i] = "sleeping" => RetryableOriginal(i)
      /\ (pc[i] = "raised" /\ upstream_calls[i] < MaxAttemptNumber) =>
           ~RetryableOriginal(i)
      /\ (pc[i] = "raised" /\ RetryableOriginal(i)) =>
           upstream_calls[i] = MaxAttemptNumber

C28_Witness ==
  /\ pc[MainInv] = "sleeping"
  /\ last_error_msg[MainInv] = MsgRateLimitCode
  /\ is_rate_limit_error(MsgRateLimitCode)
  /\ ~is_retryable_error(MsgRateLimitCode)
  /\ last_attempt[MainInv].cls = "RateLimitError"

\* C29: after an upstream failure the caller receives RateLimitError exactly
\* when the last upstream failure's message matches a rate-limit indicator,
\* and GeminiAPIError otherwise; the delivered message contains the last
\* upstream failure's message.
C29_DeliveredKindFromLastAttempt ==
  \A i \in Invs :
    (pc[i] = "raised" /\ UpstreamFailed(i)) =>
      /\ delivered[i].cls = "RateLimitError" <=>
           is_rate_limit_error(last_error_msg[i])
      /\ delivered[i].cls = "GeminiAPIError" <=>
           ~is_rate_limit_error(last_error_msg[i])
      /\ Contains(delivered[i].msg, last_error_msg[i])

C29_Witness ==
  /\ pc[MainInv] = "raised"
  /\ upstream_calls[MainInv] = MaxAttemptNumber
  /\ last_error_msg[MainInv] = MsgUnavailable
  /\ delivered[MainInv].cls = "GeminiAPIError"

\* Attempt j >= 2 of invocation i was an upstream call that failed with an
\* error the classifier does not accept, after j-1 failed attempts.
FatalAfterRetries(i) ==
  /\ upstream_calls[i] >= 2
  /\ failures[i] = upstream_calls[i]
  /\ UpstreamFailed(i)
  /\ ~is_retryable_error(last_attempt[i].msg)

\* C30: when attempts 1..j-1 fail retryably and attempt j (2 <= j <= 5)
\* fails fatally, the invocation stops at attempt j after exactly j-1 waits
\* and delivers the error of attempt j.
C30_FatalAfterRetriesStops ==
  /\ [](\A i \in Invs :
          FatalAfterRetries(i) =>
            /\ pc[i] \in {"iter", "raised"}
            /\ upstream_calls[i] <= MaxAttemptNumber
            /\ retryable_failures[i] = upstream_calls[i] - 1
            /\ Len(sleeps[i]) = upstream_calls[i] - 1
            /\ pc[i] = "raised" =>
                 /\ delivered[i] = last_attempt[i]
                 /\ Contains(delivered[i].msg, last_error_msg[i]))
  /\ [][\A i \in Invs :
          FatalAfterRetries(i) =>
            /\ pc'[i] \in {"iter", "raised"}
            /\ upstream_calls'[i] = upstream_calls[i]
            /\ sleeps'[i] = sleeps[i]]_vars

C30_Witness ==
  /\ pc[MainInv] = "raised"
  /\ upstream_calls[MainInv] = 3
  /\ sleeps[MainInv] = <<1, 2>>
  /\ last_error_msg[MainInv] = MsgNotFound
  /\ delivered[MainInv].cls = "GeminiAPIError"
  /\ ~is_retryable_error(delivered[MainInv].msg)

\* The JSON body lacks a field its route requires, or has it empty.
LacksRequiredField(e, body) ==
  IF e = ClassifyEndpoint
  THEN \/ body.text \in {PyNone, PyStr(<<>>)}
       \/ body.categories \in {PyNone, PyList(<<>>)}
  ELSE body.prompt \in {PyNone, PyStr(<<>>)}

\* The request is answered 400 with an 'error' field, and the invoker is not
\* called for it: no invocation starts, no upstream call is made.
AnsweredBadRequest(c, e) ==
  /\ reply'.status = 400
  /\ reply'.field = "error"
  /\ reply'.client = c
  /\ reply'.endpoint = e
  /\ inflight' = NoInflight
  /\ pc' = pc
  /\ upstream_calls' = upstream_calls

\* C25 (as stated): every POST whose body lacks a required field (or has it
\* empty) is answered 400 with an 'error' field, without an invoker call.
C25_InvalidPostAnswered400 ==
  [][\A c \in Clients : \A e \in PostEndpoints : \A b \in BodiesOf(e) :
       (Post(c, e, b) /\ LacksRequiredField(e, b)) =>
         AnsweredBadRequest(c, e)]_vars

\* C25 (amended): such a POST is answered 400 with an 'error' field and
\* without an invoker call when the limiter admits it, that is while fewer
\* than 10 requests of the caller to the route are counted in the window;
\* a request beyond the limit is answered 429, also without an invoker call.
C25_AdmittedInvalidPostAnswered400 ==
  [][\A c \in Clients : \A e \in PostEndpoints : \A b \in BodiesOf(e) :
       (Post(c, e, b) /\ LacksRequiredField(e, b)) =>
         IF MinuteHits(c, e) < 10
         THEN AnsweredBadRequest(c, e)
         ELSE /\ reply'.status = 429
              /\ inflight' = NoInflight
              /\ pc' = pc
              /\ upstream_calls' = upstream_calls]_vars

C25_Witness ==
  /\ reply = HttpReply(MainClient, ClassifyEndpoint, 400, "error",
                       TextCategoriesRequiredMsg)
  /\ MinuteHits(MainClient, ClassifyEndpoint) = 10
  /\ inflight = NoInflight
  /\ pc[MainInv] = "idle"
  /\ upstream_calls[MainInv] = 0

HealthyReply(c) == HttpReply(c, HealthEndpoint, 200, "status", HealthyMsg)

C27_TenPerMinutePerClientAndRoute ==
  /\ [][\A c \in Clients : \A e \in PostEndpoints : \A b \in BodiesOf(e) :
          Post(c, e, b) =>
            /\ IF MinuteHits(c, e) < 10
               THEN /\ reply'.status # 429
                    /\ \/ reply'.status = 400 /\ inflight' = NoInflight
                       \/ /\ inflight' = [client |-> c, endpoint |-> e, body |-> b]
                          /\ ~LacksRequiredField(e, b)
               ELSE /\ reply' = HttpReply(c, e, 429, "message", <<>>)
                    /\ inflight' = NoInflight
                    /\ pc' = pc
                    /\ upstream_calls' = upstream_calls
            /\ \A k \in LimitKeys :
                 (k[1] # c \/ k[2] # e) => window_hits'[k] = window_hits[k]]_vars
  /\ [][(\E i \in Invs : upstream_calls'[i] > upstream_calls[i]) =>
          window_hits' = window_hits]_vars

C27_Witness ==
  /\ reply = HttpReply(MainClient, CodeEndpoint, 429, "message", <<>>)
  /\ MinuteHits(MainClient, CodeEndpoint) = 11
  /\ MinuteHits(MainClient, TextEndpoint) = 1
  /\ MinuteHits(OtherClient, TextEndpoint) = 1
  /\ inflight = NoInflight
  /\ pc[MainInv] = "idle"

\* The failed attempts of invocation i that another attempt followed: every
\* failure but a latest one that no new attempt has followed yet.
FailuresFollowedByAttempt(i) ==
  IF last_attempt[i].state = "exception" /\ pc[i] \in {"iter", "sleeping", "raised"}
  THEN failures[i] - 1
  ELSE failures[i]

\* C31: in every state of an invocation the completed backoff waits are as
\* many as the failed attempts that another attempt followed; at
\* termination waits = attempts - 1, at most 4, and a terminated invocation
\* performs no wait.
C31_WaitsMatchFollowedFailures ==
  /\ [](\A i \in Invs :
          pc[i] # "idle" =>
            /\ Len(sleeps[i]) = FailuresFollowedByAttempt(i)
            /\ Len(sleeps[i]) = attempt_number[i] - 1
            /\ Terminated(i) =>
                 /\ Len(sleeps[i]) <= MaxAttemptNumber - 1
                 /\ upstream_calls[i] \in {0, Len(sleeps[i]) + 1})
  /\ [][\A i \in Invs :
          (Terminated(i) /\ Terminated(i)') =>
            (sleeps'[i] = sleeps[i] /\ slept'[i] = slept[i])]_vars

C31_Witness ==
  /\ pc[MainInv] = "returned"
  /\ attempt_number[MainInv] = 4
  /\ failures[MainInv] = 3
  /\ Len(sleeps[MainInv]) = 3

\* Bodies whose fields are all present and non-empty but of a type the
\* invoker does not accept.
IntPromptBody == Body(PyInt(42), PyNone, PyNone)

StrCategoriesBody == Body(PyNone, PyStr(<<"h","i">>), PyStr(<<"a","b">>))

WrongTypeBody(e) ==
  IF e = ClassifyEndpoint THEN StrCategoriesBody ELSE IntPromptBody

\* str(e) of the exception the invoker serving the request in flight has
\* raised, told from the request and from the last upstream failure.
RaisedMessage ==
  IF upstream_calls[MainInv] = 0
  THEN IF inflight.endpoint = ClassifyEndpoint
       THEN CategoriesErrorMsg
       ELSE PromptErrorMsg
  ELSE IF last_error_msg[MainInv] = MsgQuota
       THEN RateLimitPrefix \o MsgQuota
       ELSE (CASE inflight.endpoint = TextEndpoint -> TextGenPrefix
               [] inflight.endpoint = CodeEndpoint -> CodeGenPrefix
               [] OTHER -> ClassifyPrefix) \o last_error_msg[MainInv]

\* C32: a post method whose invoker raised (validation error, rate limit
\* after 5 attempts, any other upstream error) answers 500 with the
\* exception message in 'error'; an admitted request whose field is truthy
\* but of the wrong type is passed to the invoker, which raises its
\* ValueError without an upstream call, and is answered 500, never 400.
C32_InvokerExceptionAnswered500 ==
  /\ [][(PostReturns /\ pc[MainInv] = "raised") =>
          /\ reply' = HttpReply(inflight.client, inflight.endpoint, 500,
                                "error", RaisedMessage)
          /\ upstream_calls[MainInv] <= MaxAttemptNumber
          /\ (last_error_msg[MainInv] = MsgQuota =>
                upstream_calls[MainInv] = MaxAttemptNumber)
          /\ (inflight.body = WrongTypeBody(inflight.endpoint) =>
                upstream_calls[MainInv] = 0)]_vars
  /\ [][\A c \in Clients : \A e \in PostEndpoints :
          (Post(c, e, WrongTypeBody(e)) /\ LimiterAdmits(window_hits, c, e)) =>
            /\ reply'.status # 400
            /\ inflight'.body = WrongTypeBody(e)]_vars
  /\ [](inflight.body = WrongTypeBody(inflight.endpoint) =>
          /\ pc[MainInv] \notin {"calling", "sleeping", "returned"}
          /\ attempt_number[MainInv] <= 1
          /\ upstream_calls[MainInv] = 0)

C32_Witness ==
  /\ reply = HttpReply(MainClient, TextEndpoint, 500, "error", PromptErrorMsg)
  /\ inflight = NoInflight

\* C33: test_api_connection never raises; it returns True exactly when
\* generate_text returned a non-empty text, and False when generate_text
\* raised (after at least 1 and at most 5 upstream attempts) or returned
\* the empty text.
C33_ConnectionTestNeverRaises ==
  connection_ok # NotTested =>
    /\ connection_ok \in {"True", "False"}
    /\ connection_ok = "True" <=>
         (pc[MainInv] = "returned" /\ last_response[MainInv] # <<>>)
    /\ connection_ok = "False" <=>
         \/ pc[MainInv] = "raised"
         \/ pc[MainInv] = "returned" /\ last_response[MainInv] = <<>>
    /\ upstream_calls[MainInv] \in 1..MaxAttemptNumber
    /\ prompt[MainInv] = PyStr(ConnectionPrompt)

C33_Witness ==
  /\ connection_ok = "False"
  /\ pc[MainInv] = "raised"
  /\ upstream_calls[MainInv] = MaxAttemptNumber
====
